---- MODULE Spec2Model ----
(***************************************************************************)
(* The native-function bridge of the Move framework:                       *)
(*   - compute_constant_size, native_to_bytes and                          *)
(*     native_constant_serialized_size (move-stdlib/src/natives/bcs.rs);   *)
(*   - all_natives, the dispatch table builder (src/natives/mod.rs).       *)
(* Three specifications share the variables: SpecSize applies the static   *)
(* size analyzer to every bounded layout, Spec runs the two bcs natives    *)
(* against a gas meter, SpecTable runs the registrations of all_natives.   *)
(***************************************************************************)
EXTENDS Integers, Sequences, FiniteSets, TLC

\* Bounds of the model.
MaxNodes == 3        \* nodes of a layout tree, and of a runtime value
MaxFailureFee == 3   \* the failure fee of the non-zero gas schedule
MaxPerByteRate == 2  \* the per-byte rate of the non-zero gas schedule
TightBudget == 3     \* a budget that pays the failure fee but not every output

VARIABLES
    pc,         \* position of the specification's driver
    layout,     \* SpecSize: the layout handed to compute_constant_size
    size,       \* SpecSize: what compute_constant_size returned
    context,    \* Spec: the native context a call starts with
    call,       \* Spec: the native call in progress and its inputs
    ret,        \* Spec: what the call returned, charged and did
    group_out,  \* SpecTable: what every group's make_all yields
    natives,    \* SpecTable: the vector `natives` of all_natives
    next_reg,   \* SpecTable: the next add_natives_from_module! line
    table       \* SpecTable: the result of make_table_from_iter

vars == <<pc, layout, size, context, call, ret, group_out, natives, next_reg, table>>

None == <<"None">>
Some(x) == <<"Some", x>>
Err == <<"Err">>
Ok(x) == <<"Ok", x>>

(***************************************************************************)
(* Type layouts (MoveTypeLayout).  A primitive is <<tag>>, a vector        *)
(* <<"Vector", inner>>, a struct <<"Struct", variant, fields>>, a native   *)
(* wrapper <<"Native", inner>> (its kind tag is never read by the code).   *)
(***************************************************************************)
Primitives ==
    {"Bool", "U8", "U16", "U32", "U64", "U128", "U256", "Address", "Signer", "Auth"}

StructVariants == {"Runtime", "WithFields", "WithTypes"}

RECURSIVE LayoutsOfSize(_)
RECURSIVE FieldSeqs(_)

\* The layouts of exactly n nodes.
LayoutsOfSize(n) ==
    IF n < 1 THEN {}
    ELSE (IF n = 1 THEN {<<p>> : p \in Primitives} ELSE {})
         \cup {<<"Vector", l>> : l \in LayoutsOfSize(n - 1)}
         \cup {<<"Native", l>> : l \in LayoutsOfSize(n - 1)}
         \cup {<<"Struct", v, fs>> : v \in StructVariants, fs \in FieldSeqs(n - 1)}

\* The field sequences of exactly m nodes in total.
FieldSeqs(m) ==
    IF m = 0 THEN {<<>>}
    ELSE UNION {{<<l>> \o rest : l \in LayoutsOfSize(s), rest \in FieldSeqs(m - s)} :
                s \in 1..m}

Layouts == UNION {LayoutsOfSize(n) : n \in 1..MaxNodes}

(***************************************************************************)
(* compute_constant_size                                                   *)
(***************************************************************************)
\* PrimitiveSize with the Signer arm returning 16.
PrimitiveSize_SignerShort(tag) ==
    CASE tag = "Bool" -> 1
      [] tag = "U8" -> 1
      [] tag = "U16" -> 2
      [] tag = "U32" -> 4
      [] tag = "U64" -> 8
      [] tag = "U128" -> 16
      [] tag = "U256" -> 32
      [] tag = "Address" -> 32
      [] tag = "Signer" -> 16
      [] tag = "Auth" -> 32

\* PrimitiveSize with the U16 arm returning 4.
PrimitiveSize_U16Wide(tag) ==
    CASE tag = "Bool" -> 1
      [] tag = "U8" -> 1
      [] tag = "U16" -> 4
      [] tag = "U32" -> 4
      [] tag = "U64" -> 8
      [] tag = "U128" -> 16
      [] tag = "U256" -> 32
      [] tag = "Address" -> 32
      [] tag = "Signer" -> 32
      [] tag = "Auth" -> 32

\* The arms of the match that return a fixed width.
PrimitiveSize(tag) ==
    CASE tag = "Bool" -> 1
      [] tag = "U8" -> 1
      [] tag = "U16" -> 2
      [] tag = "U32" -> 4
      [] tag = "U64" -> 8
      [] tag = "U128" -> 16
      [] tag = "U256" -> 32
      [] tag = "Address" -> 32
      [] tag = "Signer" -> 32
      [] tag = "Auth" -> 32

\* IsAnalyzable with the decorated variants summed like Runtime.
IsAnalyzable_AnyVariant(variant) == variant \in StructVariants

\* The inner match on the struct representation: only Runtime is summed.
IsAnalyzable(variant) == variant = "Runtime"

RECURSIVE compute_constant_size(_)
RECURSIVE SumFields(_, _, _)

\* The loop over the fields of a runtime struct, from field i on.
SumFields(fields, i, total_size) ==
    IF i > Len(fields) THEN Some(total_size)
    ELSE LET r == compute_constant_size(fields[i])
         IN IF r = None THEN None
            ELSE SumFields(fields, i + 1, total_size + r[2])

compute_constant_size(l) ==
    CASE l[1] \in Primitives -> Some(PrimitiveSize(l[1]))
      [] l[1] = "Vector" -> None
      [] l[1] = "Struct" ->
            IF IsAnalyzable(l[2]) THEN SumFields(l[3], 1, 0) ELSE None
      [] l[1] = "Native" -> compute_constant_size(l[2])

(***************************************************************************)
(* SpecSize: the analyzer applied to every layout of at most MaxNodes      *)
(* nodes.                                                                  *)
(***************************************************************************)
NoCall == [native |-> "none"]
NoRet == [outcome |-> <<"none">>]
NoContext == [params |-> [failure |-> 0, per_byte |-> 0], budget |-> 0, used |-> 0]

SizeInit ==
    /\ pc = "input"
    /\ layout \in Layouts
    /\ size = None
    /\ context = NoContext /\ call = NoCall /\ ret = NoRet
    /\ group_out = <<>> /\ natives = <<>> /\ next_reg = 1 /\ table = None

Analyze ==
    /\ pc = "input"
    /\ pc' = "analyzed"
    /\ size' = compute_constant_size(layout)
    /\ UNCHANGED <<layout, context, call, ret, group_out, natives, next_reg, table>>

SizeNext == Analyze

SpecSize == SizeInit /\ [][SizeNext]_vars

(***************************************************************************)
(* Runtime values.  <<"Bool", b>>, <<tag, n>> for the integers and the     *)
(* 32-byte identifiers, <<"Vec", elems>>, <<"Struct", fields>>; a value    *)
(* behind a Native layout is a value of the inner layout.  <<"Opaque">>    *)
(* is a value the encoder cannot encode under any layout.                  *)
(***************************************************************************)
Opaque == <<"Opaque">>

PrimitiveValues(tag) ==
    CASE tag = "Bool" -> {<<"Bool", TRUE>>, <<"Bool", FALSE>>}
      [] tag = "U8" -> {<<"U8", 0>>, <<"U8", 255>>}
      [] tag = "U16" -> {<<"U16", 1>>, <<"U16", 65535>>}
      [] OTHER -> {<<tag, 1>>, <<tag, 2147483647>>}

RECURSIVE ValuesOfSize(_, _)
RECURSIVE FieldValues(_, _, _)
RECURSIVE ElementSeqs(_, _)

\* The values of layout l that have exactly n nodes.
ValuesOfSize(l, n) ==
    IF n < 1 THEN {}
    ELSE CASE l[1] \in Primitives -> IF n = 1 THEN PrimitiveValues(l[1]) ELSE {}
           [] l[1] = "Native" -> ValuesOfSize(l[2], n)
           [] l[1] = "Struct" -> {<<"Struct", vs>> : vs \in FieldValues(l[3], 1, n - 1)}
           [] l[1] = "Vector" -> {<<"Vec", es>> : es \in ElementSeqs(l[2], n - 1)}

\* The value sequences for fields i.. of a struct, m nodes in total.
FieldValues(fields, i, m) ==
    IF i > Len(fields) THEN (IF m = 0 THEN {<<>>} ELSE {})
    ELSE UNION {{<<v>> \o rest : v \in ValuesOfSize(fields[i], s),
                                 rest \in FieldValues(fields, i + 1, m - s)} :
                s \in 1..m}

\* The element sequences of a vector of l, m nodes in total.
ElementSeqs(l, m) ==
    IF m = 0 THEN {<<>>}
    ELSE UNION {{<<e>> \o rest : e \in ValuesOfSize(l, s), rest \in ElementSeqs(l, m - s)} :
                s \in 1..m}

ValuesOf(l) == UNION {ValuesOfSize(l, n) : n \in 1..MaxNodes}

(***************************************************************************)
(* The canonical encoder (Value::simple_serialize): little-endian          *)
(* integers, raw 32-byte identifiers, ULEB128 length prefix on vectors,    *)
(* fields depth-first.  None when the value cannot be encoded under the    *)
(* layout.                                                                 *)
(***************************************************************************)
RECURSIVE LittleEndian(_, _)
LittleEndian(n, width) ==
    IF width = 0 THEN <<>> ELSE <<n % 256>> \o LittleEndian(n \div 256, width - 1)

RECURSIVE BigEndian(_, _)
BigEndian(n, width) ==
    IF width = 0 THEN <<>> ELSE BigEndian(n \div 256, width - 1) \o <<n % 256>>

RECURSIVE Uleb128(_)
Uleb128(n) ==
    IF n < 128 THEN <<n>> ELSE <<128 + (n % 128)>> \o Uleb128(n \div 128)

IntegerWidth(tag) ==
    CASE tag = "U8" -> 1
      [] tag = "U16" -> 2
      [] tag = "U32" -> 4
      [] tag = "U64" -> 8
      [] tag = "U128" -> 16
      [] tag = "U256" -> 32

RECURSIVE simple_serialize(_, _)
RECURSIVE SerializeSeq(_, _, _)
RECURSIVE SerializeElems(_, _, _)

simple_serialize(v, l) ==
    CASE l[1] = "Native" -> simple_serialize(v, l[2])
      [] l[1] = "Bool" ->
            IF v[1] = "Bool" THEN Some(<<IF v[2] THEN 1 ELSE 0>>) ELSE None
      [] l[1] \in {"U8", "U16", "U32", "U64", "U128", "U256"} ->
            IF v[1] = l[1] THEN Some(LittleEndian(v[2], IntegerWidth(l[1]))) ELSE None
      [] l[1] \in {"Address", "Signer", "Auth"} ->
            IF v[1] = l[1] THEN Some(BigEndian(v[2], 32)) ELSE None
      [] l[1] = "Struct" ->
            IF v[1] = "Struct" /\ Len(v[2]) = Len(l[3])
            THEN SerializeSeq(v[2], l[3], 1) ELSE None
      [] l[1] = "Vector" ->
            IF v[1] = "Vec"
            THEN LET body == SerializeElems(v[2], l[2], 1)
                 IN IF body = None THEN None ELSE Some(Uleb128(Len(v[2])) \o body[2])
            ELSE None

\* The fields of a struct from field i on, each under its own layout.
SerializeSeq(vs, ls, i) ==
    IF i > Len(vs) THEN Some(<<>>)
    ELSE LET head == simple_serialize(vs[i], ls[i])
             tail == SerializeSeq(vs, ls, i + 1)
         IN IF head = None \/ tail = None THEN None ELSE Some(head[2] \o tail[2])

\* The elements of a vector from element i on, all under layout l.
SerializeElems(vs, l, i) ==
    IF i > Len(vs) THEN Some(<<>>)
    ELSE LET head == simple_serialize(vs[i], l)
             tail == SerializeElems(vs, l, i + 1)
         IN IF head = None \/ tail = None THEN None ELSE Some(head[2] \o tail[2])

(***************************************************************************)
(* The gas meter of a native context (SafeNativeContext::charge).  A       *)
(* context carries the gas schedule (params), the budget and the gas used. *)
(***************************************************************************)
charge(ctx, amount) ==
    IF ctx.used + amount > ctx.budget
    THEN [ok |-> FALSE, ctx |-> ctx]
    ELSE [ok |-> TRUE, ctx |-> [ctx EXCEPT !.used = ctx.used + amount]]

\* What a native leaves behind: its outcome, its context, the charge calls
\* it made (<<gas parameter, amount, accepted>>) and the steps it performed.
Exit(outcome, ctx, charges, steps) ==
    [outcome |-> outcome, used |-> ctx.used, charges |-> charges, steps |-> steps]

NFE_BCS_SERIALIZATION_FAILURE == "NFE_BCS_SERIALIZATION_FAILURE"

(***************************************************************************)
(* native_to_bytes                                                         *)
(***************************************************************************)
\* FailureExit without the charge.
FailureExit_Free(ctx, steps) ==
    Exit(<<"Abort", NFE_BCS_SERIALIZATION_FAILURE>>, ctx, <<>>, steps \o <<"abort">>)

\* FailureExit with the result of the charge dropped (no `?`).
FailureExit_IgnoresOutOfGas(ctx, steps) ==
    LET c == charge(ctx, ctx.params.failure)
        log == <<<<"BCS_TO_BYTES_FAILURE", ctx.params.failure, c.ok>>>>
    IN Exit(<<"Abort", NFE_BCS_SERIALIZATION_FAILURE>>, c.ctx, log,
            steps \o <<"charge", "abort">>)

\* context.charge(BCS_TO_BYTES_FAILURE)?; return Err(Abort {..})
FailureExit(ctx, steps) ==
    LET c == charge(ctx, ctx.params.failure)
        log == <<<<"BCS_TO_BYTES_FAILURE", ctx.params.failure, c.ok>>>>
    IN IF ~c.ok
       THEN Exit(<<"OutOfGas">>, c.ctx, log, steps \o <<"charge">>)
       ELSE Exit(<<"Abort", NFE_BCS_SERIALIZATION_FAILURE>>, c.ctx, log,
                 steps \o <<"charge", "abort">>)

\* SuccessExit charging the failure fee on top of the per-byte amount.
SuccessExit_BaseFeeAdded(ctx, serialized_value, steps) ==
    LET amount == ctx.params.failure + ctx.params.per_byte * Len(serialized_value)
        c == charge(ctx, amount)
        log == <<<<"BCS_TO_BYTES_PER_BYTE_SERIALIZED", amount, c.ok>>>>
    IN IF ~c.ok
       THEN Exit(<<"OutOfGas">>, c.ctx, log, steps \o <<"charge">>)
       ELSE Exit(Ok(<<<<"VectorU8", serialized_value>>>>), c.ctx, log,
                 steps \o <<"charge", "return">>)

\* context.charge(PER_BYTE_SERIALIZED * len)?; Ok(smallvec![vector_u8(..)])
SuccessExit(ctx, serialized_value, steps) ==
    LET amount == ctx.params.per_byte * Len(serialized_value)
        c == charge(ctx, amount)
        log == <<<<"BCS_TO_BYTES_PER_BYTE_SERIALIZED", amount, c.ok>>>>
    IN IF ~c.ok
       THEN Exit(<<"OutOfGas">>, c.ctx, log, steps \o <<"charge">>)
       ELSE Exit(Ok(<<<<"VectorU8", serialized_value>>>>), c.ctx, log,
                 steps \o <<"charge", "return">>)

\* ref_to_val.read_ref(): the value behind the reference, or the VM's error.
read_ref(ref) == IF ref[1] = "Ref" THEN Ok(ref[2]) ELSE Err

native_to_bytes(ctx, resolved, ref) ==
    LET s1 == <<"pop_arg", "type_to_type_layout">>
    IN IF resolved = Err THEN FailureExit(ctx, s1)
       ELSE LET val == read_ref(ref)
                s2 == s1 \o <<"read_ref">>
            IN IF val = Err THEN Exit(<<"Error">>, ctx, <<>>, s2)
               ELSE LET serialized_value == simple_serialize(val[2], resolved[2])
                        s3 == s2 \o <<"simple_serialize">>
                    IN IF serialized_value = None THEN FailureExit(ctx, s3)
                       ELSE SuccessExit(ctx, serialized_value[2], s3)

(***************************************************************************)
(* native_constant_serialized_size                                         *)
(***************************************************************************)
\* Option<u64> is Option { vec: vector<u64> }.
OptionU64(opt) ==
    <<"Struct", <<<<"VectorU64", IF opt = None THEN <<>> ELSE <<opt[2]>>>>>>>>

\* SizeResult aborting, as to_bytes does, when the layout does not resolve.
SizeResult_AbortsUnresolved(ctx, log, resolved, steps) ==
    LET s1 == steps \o <<"type_to_type_layout">>
    IN IF resolved = Err
       THEN Exit(<<"Abort", NFE_BCS_SERIALIZATION_FAILURE>>, ctx, log, s1 \o <<"abort">>)
       ELSE Exit(Ok(<<OptionU64(compute_constant_size(resolved[2]))>>), ctx, log,
                 s1 \o <<"compute_constant_size", "return">>)

\* What follows the flat charge: resolve the layout and analyze it.
SizeResult(ctx, log, resolved, steps) ==
    LET s1 == steps \o <<"type_to_type_layout">>
    IN IF resolved = Err
       THEN Exit(Ok(<<OptionU64(None)>>), ctx, log, s1 \o <<"return">>)
       ELSE Exit(Ok(<<OptionU64(compute_constant_size(resolved[2]))>>), ctx, log,
                 s1 \o <<"compute_constant_size", "return">>)

native_constant_serialized_size(ctx, resolved) ==
    LET c == charge(ctx, ctx.params.failure)
        log == <<<<"BCS_TO_BYTES_FAILURE", ctx.params.failure, c.ok>>>>
    IN IF ~c.ok
       THEN Exit(<<"OutOfGas">>, c.ctx, log, <<"charge">>)
       ELSE SizeResult(c.ctx, log, resolved, <<"charge">>)

(***************************************************************************)
(* Spec: one native call at a time on a fresh context.                     *)
(***************************************************************************)
\* The gas schedules: all zeros (the unit-test natives) and a non-zero one.
GasSchedules ==
    {[failure |-> 0, per_byte |-> 0],
     [failure |-> MaxFailureFee, per_byte |-> MaxPerByteRate]}

\* More than any call of the model can charge.
AmpleBudget == MaxFailureFee + MaxPerByteRate * 32 * MaxNodes + TightBudget

\* Nothing, one output byte, the tight budget, and the ample one.
Budgets == {0, MaxPerByteRate, TightBudget, AmpleBudget}

\* Under the all-zero schedule every charge is accepted whatever the budget:
\* one budget stands for all of them.
Contexts ==
    {c \in [params : GasSchedules, budget : Budgets, used : {0}] :
        c.params.failure = 0 => c.budget = 0}

\* context.type_to_type_layout(&arg_type)
Resolutions == {Err} \cup {Ok(l) : l \in Layouts}

\* The reference argument: a value of the resolved type, a value the encoder
\* rejects, or a reference whose read fails.
References(resolved) ==
    {<<"BadRef">>, <<"Ref", Opaque>>}
    \cup (IF resolved = Err THEN {} ELSE {<<"Ref", v>> : v \in ValuesOf(resolved[2])})

Init ==
    /\ pc = "idle"
    /\ context \in Contexts
    /\ call = NoCall /\ ret = NoRet
    /\ layout = <<"Bool">> /\ size = None
    /\ group_out = <<>> /\ natives = <<>> /\ next_reg = 1 /\ table = None

\* What the encoder answers for the argument of a call, None when the call
\* cannot reach the encoder; kept with the call's inputs.
EncoderAnswer(resolved, ref) ==
    IF resolved # Err /\ ref[1] = "Ref"
    THEN simple_serialize(ref[2], resolved[2]) ELSE None

ToBytes ==
    /\ pc = "idle"
    /\ \E resolved \in Resolutions :
         \E ref \in References(resolved) :
            /\ call' = [native |-> "to_bytes", ctx |-> context,
                        resolved |-> resolved, ref |-> ref,
                        encoded |-> EncoderAnswer(resolved, ref)]
            /\ ret' = native_to_bytes(context, resolved, ref)
    /\ pc' = "returned"
    /\ UNCHANGED <<layout, size, context, group_out, natives, next_reg, table>>

ConstantSerializedSize ==
    /\ pc = "idle"
    /\ \E resolved \in Resolutions :
            /\ call' = [native |-> "constant_serialized_size", ctx |-> context,
                        resolved |-> resolved]
            /\ ret' = native_constant_serialized_size(context, resolved)
    /\ pc' = "returned"
    /\ UNCHANGED <<layout, size, context, group_out, natives, next_reg, table>>

\* The interpreter takes the result; the next call gets a fresh context.
Return ==
    /\ pc = "returned"
    /\ pc' = "idle"
    /\ call' = NoCall /\ ret' = NoRet
    /\ UNCHANGED <<layout, size, context, group_out, natives, next_reg, table>>

Next == ToBytes \/ ConstantSerializedSize \/ Return

Spec == Init /\ [][Next]_vars

(***************************************************************************)
(* all_natives: the registrations, in source order, as <<module name,      *)
(* group>>.  A group is the module whose make_all supplies the functions.  *)
(***************************************************************************)
\* Registrations with the second create_signer line labelled "create_signer".
Registrations_GenesisMislabelled ==
    << <<"account", "account">>,
       <<"create_signer", "create_signer">>,
       <<"ed25519", "ed25519">>,
       <<"crypto_algebra", "algebra">>,
       <<"create_signer", "create_signer">>,
       <<"multi_ed25519", "multi_ed25519">>,
       <<"bls12381", "bls12381">>,
       <<"secp256k1", "secp256k1">>,
       <<"endless_hash", "hash">>,
       <<"ristretto255", "ristretto255">>,
       <<"type_info", "type_info">>,
       <<"util", "util">>,
       <<"from_bcs", "util">>,
       <<"randomness", "randomness">>,
       <<"ristretto255_bulletproofs", "bulletproofs">>,
       <<"transaction_context", "transaction_context">>,
       <<"code", "code">>,
       <<"event", "event">>,
       <<"state_storage", "state_storage">>,
       <<"aggregator", "aggregator">>,
       <<"aggregator_factory", "aggregator_factory">>,
       <<"aggregator_v2", "aggregator_v2">>,
       <<"object", "object">>,
       <<"debug", "debug">>,
       <<"string_utils", "string_utils">>,
       <<"consensus_config", "consensus_config">>,
       <<"poly_commit_ipa", "poly_commit_ipa">>,
       <<"poly_commit_fk20", "poly_commit_fk20">> >>

Registrations ==
    << <<"account", "account">>,
       <<"create_signer", "create_signer">>,
       <<"ed25519", "ed25519">>,
       <<"crypto_algebra", "algebra">>,
       <<"genesis", "create_signer">>,
       <<"multi_ed25519", "multi_ed25519">>,
       <<"bls12381", "bls12381">>,
       <<"secp256k1", "secp256k1">>,
       <<"endless_hash", "hash">>,
       <<"ristretto255", "ristretto255">>,
       <<"type_info", "type_info">>,
       <<"util", "util">>,
       <<"from_bcs", "util">>,
       <<"randomness", "randomness">>,
       <<"ristretto255_bulletproofs", "bulletproofs">>,
       <<"transaction_context", "transaction_context">>,
       <<"code", "code">>,
       <<"event", "event">>,
       <<"state_storage", "state_storage">>,
       <<"aggregator", "aggregator">>,
       <<"aggregator_factory", "aggregator_factory">>,
       <<"aggregator_v2", "aggregator_v2">>,
       <<"object", "object">>,
       <<"debug", "debug">>,
       <<"string_utils", "string_utils">>,
       <<"consensus_config", "consensus_config">>,
       <<"poly_commit_ipa", "poly_commit_ipa">>,
       <<"poly_commit_fk20", "poly_commit_fk20">> >>

\* Bounds of the table model.
MaxGroupLen == 2   \* functions a group yields
MaxFuncNames == 2  \* distinct function names
MaxImpls == 2      \* distinct implementations inside one group

\* What a group's make_all may yield: <<function name, implementation>>
\* pairs.  Every group yields the same names, the case in which only the
\* module names keep the keys apart; an implementation belongs to its group.
GroupOutputs ==
    UNION {[1..n -> (1..MaxFuncNames) \X (1..MaxImpls)] : n \in 0..MaxGroupLen}

\* group::make_all(builder)
make_all(group, out) ==
    [i \in 1..Len(out) |-> <<out[i][1], <<group, out[i][2]>>>>]

\* The macro add_natives_from_module!: the triples it appends to `natives`.
add_natives_from_module(module_name, funcs) ==
    [i \in 1..Len(funcs) |-> <<module_name, funcs[i][1], funcs[i][2]>>]

\* make_table_from_iter(framework_addr, natives): every triple, in order,
\* under the framework address; nothing is compared with anything.
make_table_from_iter(framework_addr, elems) ==
    Some([i \in 1..Len(elems) |-> <<framework_addr, elems[i][1], elems[i][2], elems[i][3]>>])

TableInit ==
    /\ pc = "registering"
    /\ group_out \in GroupOutputs
    /\ natives = <<>>
    /\ next_reg = 1
    /\ table = None
    /\ layout = <<"Bool">> /\ size = None
    /\ context = NoContext /\ call = NoCall /\ ret = NoRet

\* One add_natives_from_module! line.
Register ==
    /\ pc = "registering"
    /\ next_reg <= Len(Registrations)
    /\ natives' = natives \o
          add_natives_from_module(Registrations[next_reg][1],
                                  make_all(Registrations[next_reg][2], group_out))
    /\ next_reg' = next_reg + 1
    /\ UNCHANGED <<pc, group_out, table, layout, size, context, call, ret>>

\* The last line of all_natives.
Finalize ==
    /\ pc = "registering"
    /\ next_reg > Len(Registrations)
    /\ table' = make_table_from_iter("framework_addr", natives)
    /\ pc' = "finalized"
    /\ UNCHANGED <<group_out, natives, next_reg, layout, size, context, call, ret>>

TableNext == Register \/ Finalize

SpecTable == TableInit /\ [][TableNext]_vars

(***************************************************************************)
(* Properties.                                                             *)
(***************************************************************************)
ToBytesReturned == pc = "returned" /\ call.native = "to_bytes"
SizeReturned == pc = "returned" /\ call.native = "constant_serialized_size"

FailureFee == call.ctx.params.failure
PerByteRate == call.ctx.params.per_byte

\* The argument can be read and the layout resolved.
Readable == call.resolved # Err /\ call.ref[1] = "Ref"

\* What the encoder makes of the argument under the resolved layout.
Encoded == call.encoded

LayoutFails == call.resolved = Err
EncodingFails == Readable /\ Encoded = None
Encodes == Readable /\ Encoded # None

OneCharge(param, amount) == ret.charges = <<<<param, amount, TRUE>>>>

C2_EveryExitChargesBaseFee ==
    (ToBytesReturned /\ FailureFee > 0 /\ ret.outcome[1] \in {"Ok", "Abort"})
        => ret.used >= FailureFee /\ ret.used > 0

FieldWidth(tag) ==
    CASE tag \in {"Bool", "U8"} -> 1
      [] tag = "U16" -> 2
      [] tag = "U32" -> 4
      [] tag = "U64" -> 8
      [] tag = "U128" -> 16
      [] tag \in {"U256", "Address", "Signer", "Auth"} -> 32

RECURSIVE SumOfWidths(_, _)
SumOfWidths(fields, i) ==
    IF i > Len(fields) THEN 0 ELSE FieldWidth(fields[i][1]) + SumOfWidths(fields, i + 1)

AllPrimitiveRuntimeStruct(l) ==
    /\ l[1] = "Struct" /\ l[2] = "Runtime"
    /\ \A i \in 1..Len(l[3]) : l[3][i][1] \in Primitives

RECURSIVE ContainsVector(_)
ContainsVector(l) ==
    CASE l[1] = "Vector" -> TRUE
      [] l[1] = "Native" -> ContainsVector(l[2])
      [] l[1] = "Struct" -> \E i \in 1..Len(l[3]) : ContainsVector(l[3][i])
      [] OTHER -> FALSE

\* C4: for a runtime struct whose fields are all fixed-width primitives the
\* analyzer returns Some(sum of the field widths); for a layout that holds a
\* Vector at any depth it returns None.
C4_ConstantSizeOfStructs ==
    pc = "analyzed" =>
        /\ AllPrimitiveRuntimeStruct(layout) => size = Some(SumOfWidths(layout[3], 1))
        /\ ContainsVector(layout) => size = None

C4_Witness ==
    /\ pc = "analyzed"
    /\ layout = <<"Struct", "Runtime", <<<<"U16">>, <<"U64">>>>>>
    /\ size = Some(10)

\* C5: when the analyzer gives the resolved layout the constant size n, every
\* successful to_bytes of a value of that layout returns exactly n bytes.
C5_ConstantSizeIsOutputLength ==
    (ToBytesReturned /\ ret.outcome[1] = "Ok"
        /\ compute_constant_size(call.resolved[2]) # None)
        => Len(ret.outcome[2][1][2]) = compute_constant_size(call.resolved[2])[2]

C5_Witness ==
    /\ ToBytesReturned /\ ret.outcome[1] = "Ok"
    /\ call.resolved[2] = <<"Struct", "Runtime", <<<<"Signer">>, <<"U16">>>>>>
    /\ call.ref[2][2][2] = <<"U16", 65535>>
    /\ Len(ret.outcome[2][1][2]) = 34

\* C6: a constant_serialized_size call whose budget covers the flat fee never
\* aborts; it returns None when the layout does not resolve; and it makes one
\* charge call, of the flat fee, whether the layout resolves or not and
\* whatever its shape.
C6_SizeNativeFlatFee ==
    (SizeReturned /\ call.ctx.budget >= FailureFee)
        => /\ ret.outcome[1] = "Ok"
           /\ Len(ret.outcome[2]) = 1
           /\ LayoutFails => ret.outcome[2][1] = OptionU64(None)
           /\ OneCharge("BCS_TO_BYTES_FAILURE", FailureFee)
           /\ ret.used = FailureFee

C6_Witness ==
    /\ SizeReturned /\ LayoutFails
    /\ FailureFee > 0 /\ call.ctx.budget = FailureFee
    /\ ret.outcome = Ok(<<OptionU64(None)>>)
    /\ ret.used = FailureFee

\* Keys of a sequence of entries whose module and function names sit at
\* positions m and f.
DistinctKeys(entries, m, f) ==
    \A i, j \in 1..Len(entries) :
        i # j => <<entries[i][m], entries[i][f]>> # <<entries[j][m], entries[j][f]>>

DistinctNames(out) == \A i, j \in 1..Len(out) : i # j => out[i][1] # out[j][1]

\* C7: when every group yields pairwise distinct function names, no two
\* entries of the finished table share their (module name, function name).
C7_TableKeysUnique ==
    (pc = "finalized" /\ DistinctNames(group_out)) => DistinctKeys(table[2], 2, 3)

C7_Witness ==
    /\ pc = "finalized" /\ DistinctNames(group_out) /\ Len(group_out) = 2
    /\ Len(table[2]) = 2 * Len(Registrations)
    /\ \E i, j \in 1..Len(table[2]) :
          /\ table[2][i][2] = "create_signer" /\ table[2][j][2] = "genesis"
          /\ table[2][i][3] = table[2][j][3] /\ table[2][i][4] = table[2][j][4]

\* Two registrations of one key with different implementations.
ConflictingDuplicate(entries) ==
    \E i, j \in 1..Len(entries) :
        /\ i # j
        /\ entries[i][1] = entries[j][1] /\ entries[i][2] = entries[j][2]
        /\ entries[i][3] # entries[j][3]

\* C8: when the registrations hold one (module name, function name) twice
\* with different implementations, building the table fails: no table is
\* produced.
C8_DuplicateKeyRejected ==
    (pc = "finalized" /\ ConflictingDuplicate(natives)) => table[1] # "Some"

\* C9: a charge call that fails for lack of gas ends the native at once with
\* the out-of-gas failure: to_bytes on a failure path does not abort, on the
\* success path returns no bytes, and constant_serialized_size neither
\* resolves the layout nor returns; the failed charge is the last step.
C9_OutOfGasEndsTheCall ==
    LET encoded == Encoded
        short ==
            \/ /\ ToBytesReturned /\ LayoutFails
               /\ call.ctx.budget < FailureFee
            \/ /\ ToBytesReturned /\ Readable /\ encoded = None
               /\ call.ctx.budget < FailureFee
            \/ /\ ToBytesReturned /\ Readable /\ encoded # None
               /\ call.ctx.budget < PerByteRate * Len(encoded[2])
            \/ SizeReturned /\ call.ctx.budget < FailureFee
    IN short =>
        /\ ret.outcome = <<"OutOfGas">>
        /\ ret.steps[Len(ret.steps)] = "charge"
        /\ Len(ret.charges) = 1 /\ ret.charges[1][3] = FALSE
        /\ SizeReturned => ret.steps = <<"charge">>

C9_Witness ==
    /\ ToBytesReturned /\ EncodingFails
    /\ call.ctx.budget > 0 /\ call.ctx.budget < FailureFee
    /\ ret.outcome = <<"OutOfGas">>
    /\ ret.steps = <<"pop_arg", "type_to_type_layout", "read_ref", "simple_serialize", "charge">>

RECURSIVE ContainsDecoratedStruct(_)
ContainsDecoratedStruct(l) ==
    CASE l[1] = "Struct" ->
            \/ l[2] # "Runtime"
            \/ \E i \in 1..Len(l[3]) : ContainsDecoratedStruct(l[3][i])
      [] l[1] \in {"Native", "Vector"} -> ContainsDecoratedStruct(l[2])
      [] OTHER -> FALSE

\* C10: a struct layout that is not the runtime variant has no constant size
\* whatever its fields, and neither has a layout that holds one at any depth.
C10_DecoratedStructHasNoSize ==
    (pc = "analyzed" /\ ContainsDecoratedStruct(layout)) => size = None

C10_Witness ==
    /\ pc = "analyzed"
    /\ layout = <<"Struct", "Runtime", <<<<"Struct", "WithTypes", <<<<"U8">>>>>>>>>>
    /\ size = None

====
